---- MODULE Spec2Model ----
(***************************************************************************)
(* A model of the two requirements generators of ReqTxtGenerator:          *)
(*   FirstEdition.py  RequirementsGenerator        (the syntactic variant)  *)
(*   GeminiWay.py     GeminiRequirementsGenerator  (the inferential one)    *)
(*                                                                         *)
(* A Python str is modelled as the sequence of its characters, each a      *)
(* one-character string, so that lower(), strip(), split(), the ordering   *)
(* of sorted() and the formatting of the manifest lines are computed.      *)
(* A dict is modelled as the sequence of its (key, value) items in         *)
(* insertion order, which is the order Python iterates them in.            *)
(***************************************************************************)
EXTENDS Integers, Sequences, FiniteSets, TLC

(***************************************************************************)
(* Bounds of the model.                                                    *)
(***************************************************************************)
\* the most names the import statements of the project mention
MaxImports == 2
\* the most package directories (directories holding __init__.py)
MaxPackages == 1
\* the most distributions installed in the environment
MaxInstalled == 2
\* the most comma-separated tokens in the answer of the service
MaxTokens == 2

(***************************************************************************)
(* Python str                                                              *)
(***************************************************************************)
\* the printable ASCII characters of the code points 32 .. 95
ASCII ==
    <<" ","!","\"","#","$","%","&","'","(",")","*","+",",","-",".","/",
      "0","1","2","3","4","5","6","7","8","9",":",";","<","=",">","?",
      "@","A","B","C","D","E","F","G","H","I","J","K","L","M","N","O",
      "P","Q","R","S","T","U","V","W","X","Y","Z","[","\\","]","^","_">>

\* the printable ASCII characters of the code points 97 .. 126 (the grave
\* accent, 96, cannot be written in a string of this language)
ASCII_LOWER ==
    <<"a","b","c","d","e","f","g","h","i","j","k","l","m","n","o","p",
      "q","r","s","t","u","v","w","x","y","z","{","|","}","~">>

\* ord(c)
Ord ==
    [c \in {ASCII[i] : i \in 1..Len(ASCII)} \cup {ASCII_LOWER[i] : i \in 1..Len(ASCII_LOWER)} |->
        IF \E i \in 1..Len(ASCII) : ASCII[i] = c
          THEN 31 + (CHOOSE i \in 1..Len(ASCII) : ASCII[i] = c)
          ELSE 96 + (CHOOSE i \in 1..Len(ASCII_LOWER) : ASCII_LOWER[i] = c)]

\* chr(n)
Chr(n) ==
    IF n <= 95 THEN ASCII[n - 31] ELSE ASCII_LOWER[n - 96]

\* str.lower() of one character: "A" .. "Z" are 65 .. 90, "a" is 97
lower_char ==
    [c \in DOMAIN Ord |-> IF Ord[c] >= 65 /\ Ord[c] <= 90 THEN Chr(Ord[c] + 32) ELSE c]

\* str.lower()
lower(s) ==
    [i \in 1..Len(s) |-> lower_char[s[i]]]

\* a < b on str: lexicographic on the code points
StrLess(a, b) ==
    \E i \in 1..(Len(a) + 1) :
        /\ \A j \in 1..(i - 1) : j <= Len(b) /\ a[j] = b[j]
        /\ IF i > Len(a)
             THEN Len(b) >= i
             ELSE i <= Len(b) /\ Ord[a[i]] < Ord[b[i]]

Whitespace ==
    {" ", "\t", "\n", "\r"}

RECURSIVE lstrip(_)
lstrip(s) ==
    IF s # <<>> /\ Head(s) \in Whitespace THEN lstrip(Tail(s)) ELSE s

RECURSIVE rstrip(_)
rstrip(s) ==
    IF s # <<>> /\ s[Len(s)] \in Whitespace
      THEN rstrip(SubSeq(s, 1, Len(s) - 1))
      ELSE s

\* str.strip()
strip(s) ==
    rstrip(lstrip(s))

\* str.split(sep) for a one-character separator: always at least one piece
RECURSIVE split(_, _)
split(s, sep) ==
    IF \E i \in 1..Len(s) : s[i] = sep
      THEN LET i == CHOOSE k \in 1..Len(s) :
                       s[k] = sep /\ \A j \in 1..(k - 1) : s[j] # sep
           IN  <<SubSeq(s, 1, i - 1)>> \o split(SubSeq(s, i + 1, Len(s)), sep)
      ELSE <<s>>

\* sep.join(parts)
RECURSIVE join(_, _)
join(sep, parts) ==
    IF parts = <<>> THEN <<>>
    ELSE IF Len(parts) = 1 THEN parts[1]
    ELSE parts[1] \o sep \o join(sep, Tail(parts))

\* None
None ==
    <<"None">>

\* the truth value of a str or None, as `if version` tests it
Truthy(v) ==
    v # None /\ v # <<>>

\* f"{v}" of a str or None
Format(v) ==
    IF v = None THEN <<"N","o","n","e">> ELSE v

(***************************************************************************)
(* sorted()                                                                *)
(***************************************************************************)
\* one step of a stable sort: x = <<key, item>> goes behind every element
\* of the sorted sequence s whose key is not greater than its own
SortedInsert(s, x) ==
    LET n == Cardinality({i \in 1..Len(s) : ~StrLess(x[1], s[i][1])})
    IN  SubSeq(s, 1, n) \o <<x>> \o SubSeq(s, n + 1, Len(s))

RECURSIVE SortPairs(_, _)
SortPairs(done, rest) ==
    IF rest = <<>> THEN done
    ELSE SortPairs(SortedInsert(done, Head(rest)), Tail(rest))

\* sorted(items): items is a sequence of str
sorted(items) ==
    LET keyed == [i \in 1..Len(items) |-> <<items[i], items[i]>>]
        s == SortPairs(<<>>, keyed)
    IN  [i \in 1..Len(s) |-> s[i][2]]

\* sorted(list(S)) of a set of str: the order list() gives the elements in
\* does not show, the elements being distinct
RECURSIVE sorted_set(_)
sorted_set(S) ==
    IF S = {} THEN <<>>
    ELSE LET m == CHOOSE x \in S : \A y \in S \ {x} : StrLess(x, y)
         IN  <<m>> \o sorted_set(S \ {m})

(***************************************************************************)
(* dict, in insertion order                                                *)
(***************************************************************************)
DictKeys(d) ==
    {d[i][1] : i \in 1..Len(d)}

\* k in d
DictHas(d, k) ==
    \E i \in 1..Len(d) : d[i][1] = k

\* d[k] = v: a new key goes to the end, an old key keeps its place
DictSet(d, k, v) ==
    IF DictHas(d, k)
      THEN [i \in 1..Len(d) |-> IF d[i][1] = k THEN <<k, v>> ELSE d[i]]
      ELSE Append(d, <<k, v>>)

(***************************************************************************)
(* Configuration of the scripts                                            *)
(***************************************************************************)
\* FirstEdition.py:13-47
IMPORT_TO_PYPI_MAP ==
       (<<"c","o","r","s","h","e","a","d","e","r","s">> :> <<"d","j","a","n","g","o","-","c","o","r","s","-","h","e","a","d","e","r","s">>)   \* 'corsheaders': 'django-cors-headers'
    @@ (<<"r","e","s","t","_","f","r","a","m","e","w","o","r","k">> :> <<"d","j","a","n","g","o","r","e","s","t","f","r","a","m","e","w","o","r","k">>)   \* 'rest_framework': 'djangorestframework'
    @@ (<<"r","e","s","t","_","f","r","a","m","e","w","o","r","k","_","s","i","m","p","l","e","j","w","t">> :> <<"d","j","a","n","g","o","r","e","s","t","f","r","a","m","e","w","o","r","k","-","s","i","m","p","l","e","j","w","t">>)   \* 'rest_framework_simplejwt': 'djangorestframework-simplejwt'
    @@ (<<"d","j","a","n","g","o","_","f","i","l","t","e","r","s">> :> <<"d","j","a","n","g","o","-","f","i","l","t","e","r">>)   \* 'django_filters': 'django-filter'
    @@ (<<"c","r","i","s","p","y","_","f","o","r","m","s">> :> <<"d","j","a","n","g","o","-","c","r","i","s","p","y","-","f","o","r","m","s">>)   \* 'crispy_forms': 'django-crispy-forms'
    @@ (<<"c","l","o","u","d","i","n","a","r","y","_","s","t","o","r","a","g","e">> :> <<"d","j","a","n","g","o","-","c","l","o","u","d","i","n","a","r","y","-","s","t","o","r","a","g","e">>)   \* 'cloudinary_storage': 'django-cloudinary-storage'
    @@ (<<"b","s","4">> :> <<"b","e","a","u","t","i","f","u","l","s","o","u","p","4">>)   \* 'bs4': 'beautifulsoup4'
    @@ (<<"d","a","t","e","u","t","i","l">> :> <<"p","y","t","h","o","n","-","d","a","t","e","u","t","i","l">>)   \* 'dateutil': 'python-dateutil'
    @@ (<<"d","o","t","e","n","v">> :> <<"p","y","t","h","o","n","-","d","o","t","e","n","v">>)   \* 'dotenv': 'python-dotenv'
    @@ (<<"j","o","s","e">> :> <<"p","y","t","h","o","n","-","j","o","s","e">>)   \* 'jose': 'python-jose'
    @@ (<<"j","w","t">> :> <<"P","y","J","W","T">>)   \* 'jwt': 'PyJWT'
    @@ (<<"P","I","L">> :> <<"P","i","l","l","o","w">>)   \* 'PIL': 'Pillow'
    @@ (<<"w","e","r","k","z","e","u","g">> :> <<"W","e","r","k","z","e","u","g">>)   \* 'werkzeug': 'Werkzeug'
    @@ (<<"j","i","n","j","a","2">> :> <<"J","i","n","j","a","2">>)   \* 'jinja2': 'Jinja2'
    @@ (<<"c","v","2">> :> <<"o","p","e","n","c","v","-","p","y","t","h","o","n">>)   \* 'cv2': 'opencv-python'
    @@ (<<"f","a","i","s","s">> :> <<"f","a","i","s","s","-","c","p","u">>)   \* 'faiss': 'faiss-cpu'
    @@ (<<"s","k","l","e","a","r","n">> :> <<"s","c","i","k","i","t","-","l","e","a","r","n">>)   \* 'sklearn': 'scikit-learn'
    @@ (<<"t","a","v","i","l","y">> :> <<"t","a","v","i","l","y","-","p","y","t","h","o","n">>)   \* 'tavily': 'tavily-python'
    @@ (<<"y","a","m","l">> :> <<"P","y","Y","A","M","L">>)   \* 'yaml': 'PyYAML'
    @@ (<<"p","s","y","c","o","p","g","2">> :> <<"p","s","y","c","o","p","g","2","-","b","i","n","a","r","y">>)   \* 'psycopg2': 'psycopg2-binary'
    @@ (<<"M","y","S","Q","L","d","b">> :> <<"m","y","s","q","l","c","l","i","e","n","t">>)   \* 'MySQLdb': 'mysqlclient'
    @@ (<<"C","r","y","p","t","o">> :> <<"p","y","c","r","y","p","t","o","d","o","m","e">>)   \* 'Crypto': 'pycryptodome'
    @@ (<<"p","k","g","_","r","e","s","o","u","r","c","e","s">> :> <<"s","e","t","u","p","t","o","o","l","s">>)   \* 'pkg_resources': 'setuptools'
    @@ (<<"y","o","u","t","u","b","e","_","s","e","a","r","c","h">> :> <<"y","o","u","t","u","b","e","-","s","e","a","r","c","h">>)   \* 'youtube_search': 'youtube-search'

\* FirstEdition.py:51-62
KNOWN_CLI_AND_CONFIG_TOOLS ==
    { <<"g","u","n","i","c","o","r","n">>,   \* 'gunicorn'
      <<"u","v","i","c","o","r","n">>,   \* 'uvicorn'
      <<"d","a","p","h","n","e">>,   \* 'daphne'
      <<"w","h","i","t","e","n","o","i","s","e">>,   \* 'whitenoise'
      <<"b","l","a","c","k">>,   \* 'black'
      <<"i","s","o","r","t">>,   \* 'isort'
      <<"f","l","a","k","e","8">>,   \* 'flake8'
      <<"m","y","p","y">>,   \* 'mypy'
      <<"p","y","t","e","s","t">>,   \* 'pytest'
      <<"p","i","p","-","t","o","o","l","s">> }   \* 'pip-tools'

\* GeminiWay.py:13-26
Gemini_IMPORT_TO_PYPI_MAP ==
       (<<"b","s","4">> :> <<"b","e","a","u","t","i","f","u","l","s","o","u","p","4">>)   \* 'bs4': 'beautifulsoup4'
    @@ (<<"c","v","2">> :> <<"o","p","e","n","c","v","-","p","y","t","h","o","n">>)   \* 'cv2': 'opencv-python'
    @@ (<<"d","a","t","e","u","t","i","l">> :> <<"p","y","t","h","o","n","-","d","a","t","e","u","t","i","l">>)   \* 'dateutil': 'python-dateutil'
    @@ (<<"d","o","t","e","n","v">> :> <<"p","y","t","h","o","n","-","d","o","t","e","n","v">>)   \* 'dotenv': 'python-dotenv'
    @@ (<<"P","I","L">> :> <<"P","i","l","l","o","w">>)   \* 'PIL': 'Pillow'
    @@ (<<"s","k","l","e","a","r","n">> :> <<"s","c","i","k","i","t","-","l","e","a","r","n">>)   \* 'sklearn': 'scikit-learn'
    @@ (<<"y","a","m","l">> :> <<"P","y","Y","A","M","L">>)   \* 'yaml': 'PyYAML'
    @@ (<<"r","e","s","t","_","f","r","a","m","e","w","o","r","k">> :> <<"d","j","a","n","g","o","r","e","s","t","f","r","a","m","e","w","o","r","k">>)   \* 'rest_framework': 'djangorestframework'
    @@ (<<"c","o","r","s","h","e","a","d","e","r","s">> :> <<"d","j","a","n","g","o","-","c","o","r","s","-","h","e","a","d","e","r","s">>)   \* 'corsheaders': 'django-cors-headers'
    @@ (<<"j","o","s","e">> :> <<"p","y","t","h","o","n","-","j","o","s","e">>)   \* 'jose': 'python-jose'
    @@ (<<"j","w","t">> :> <<"P","y","J","W","T">>)   \* 'jwt': 'PyJWT'
    @@ (<<"y","o","u","t","u","b","e","_","s","e","a","r","c","h">> :> <<"y","o","u","t","u","b","e","-","s","e","a","r","c","h">>)   \* 'youtube_search': 'youtube-search'

\* the fallback of _get_std_lib_modules; sys.stdlib_module_names holds
\* these names too
std_lib ==
    { <<"o","s">>, <<"s","y","s">>, <<"m","a","t","h">>, <<"d","a","t","e","t","i","m","e">>, <<"j","s","o","n">>, <<"r","e">>, <<"l","o","g","g","i","n","g">>,
      <<"c","o","l","l","e","c","t","i","o","n","s">>, <<"i","t","e","r","t","o","o","l","s">>, <<"f","u","n","c","t","o","o","l","s">>, <<"p","a","t","h","l","i","b">>, <<"s","u","b","p","r","o","c","e","s","s">>,
      <<"a","s","t">>, <<"i","m","p","o","r","t","l","i","b">> }

exclude_dirs ==
    { <<".","v","e","n","v">>, <<"v","e","n","v">>, <<"e","n","v">>, <<"b","u","i","l","d">>, <<"d","i","s","t">>, <<".","g","i","t">>, <<"_","_","p","y","c","a","c","h","e","_","_">>,
      <<"n","o","d","e","_","m","o","d","u","l","e","s">> }

(***************************************************************************)
(* The inputs of a run: the project tree, the environment, the manifest    *)
(* already on disk.                                                        *)
(***************************************************************************)
\* the root module names the import statements of the project may mention
ImportNames ==
    { <<"o","s">>, <<"m","y","a","p","p">>, <<"r","e","q","u","e","s","t","s">>, <<"b","s","4">>, <<"P","I","L">>, <<"p","i","l","l","o","w">> }

\* the settings.py files with a manage.py one directory up the project may
\* have, each given by the first segments of the strings of its
\* INSTALLED_APPS and MIDDLEWARE
SettingsFiles ==
    { {<<"r","e","s","t","_","f","r","a","m","e","w","o","r","k">>}, {<<>>, <<"m","y","a","p","p">>} }

\* the directories holding an __init__.py the project may have; excluded
\* tells whether the directory lies under a directory of exclude_dirs
PackageDirs ==
    { [name |-> <<"m","y","a","p","p">>, excluded |-> FALSE],
      [name |-> <<"p","y","t","e","s","t">>, excluded |-> FALSE],
      [name |-> <<"r","e","q","u","e","s","t","s">>, excluded |-> TRUE] }

\* os.path.basename(root_dir)
RootNames ==
    { <<"p","r","o","j","e","c","t">>, <<"r","e","q","u","e","s","t","s">> }

\* the distributions the environment may hold: metadata['Name'] and
\* metadata['Version'], None when the metadata has no Version
Distributions ==
    { [Name |-> <<"r","e","q","u","e","s","t","s">>, Version |-> <<"2",".","3","1",".","0">>],
      [Name |-> <<"b","e","a","u","t","i","f","u","l","s","o","u","p","4">>, Version |-> <<"4",".","1","2",".","0">>],
      [Name |-> <<"P","i","l","l","o","w">>, Version |-> None],
      [Name |-> <<"p","y","t","e","s","t">>, Version |-> <<"7",".","4",".","0">>],
      [Name |-> <<"g","u","n","i","c","o","r","n">>, Version |-> <<"2","1",".","2",".","0">>],
      [Name |-> <<"d","j","a","n","g","o","r","e","s","t","f","r","a","m","e","w","o","r","k">>, Version |-> <<"3",".","1","4",".","0">>] }

\* the pieces the answer of the service may be made of
Tokens ==
    { <<>>, <<" ","r","e","q","u","e","s","t","s"," ">>, <<"b","s","4">>, <<"P","I","L">>, <<"p","i","l","l","o","w">> }

SubsetsUpTo(S, n) ==
    {T \in SUBSET S : Cardinality(T) <= n}

SeqsUpTo(S, n) ==
    UNION {[1..k -> S] : k \in 0..n}

\* has_py: the tree holds a readable .py file outside exclude_dirs;
\* imports: the root segments of the absolute imports of these files;
\* settings: the settings.py files among them
\* (a root directory named as a distribution is taken without package
\* directories: either one alone puts a name into local_modules)
Projects ==
    { [root |-> rp[1], packages |-> rp[2], has_py |-> h, imports |-> is, settings |-> st] :
        rp \in { x \in RootNames \X SubsetsUpTo(PackageDirs, MaxPackages) :
                    x[1] = <<"p","r","o","j","e","c","t">> \/ x[2] = {} },
        h \in BOOLEAN, is \in SubsetsUpTo(ImportNames, MaxImports),
        st \in SUBSET SettingsFiles }

\* the inferential variant reads the files as text only
TextProjects ==
    { [root |-> <<"p","r","o","j","e","c","t">>, packages |-> {}, has_py |-> h, imports |-> {}, settings |-> {}] :
        h \in BOOLEAN }

Environments ==
    SubsetsUpTo(Distributions, MaxInstalled)

\* a file: absent, or a sequence of lines, each written with its "\n"
NoFile ==
    [exists |-> FALSE, lines |-> <<>>]

OldManifest ==
    [exists |-> TRUE, lines |-> <<<<"f","l","a","s","k","=","=","0",".","1","2">>>>]

(***************************************************************************)
(* importlib.metadata                                                      *)
(***************************************************************************)
\* what a character counts as when the index compares names: "-", "_" and
\* "." alike, a letter as its lower case
normalize_char ==
    [c \in DOMAIN Ord |-> IF c \in {"-", "_", "."} THEN "_" ELSE lower_char[c]]

\* s with every run of "_" made one "_"
RECURSIVE CollapseRuns(_)
CollapseRuns(s) ==
    IF Len(s) < 2 THEN s
    ELSE IF s[1] = "_" /\ s[2] = "_" THEN CollapseRuns(Tail(s))
    ELSE <<s[1]>> \o CollapseRuns(Tail(s))

\* the name under which the index compares distribution names: runs of
\* "-", "_" and "." become one "_", and the letters lower case
Normalize(name) ==
    LET s == [i \in 1..Len(name) |-> normalize_char[name[i]]]
    IN  IF \E i \in 1..(Len(s) - 1) : s[i] = "_" /\ s[i + 1] = "_"
          THEN CollapseRuns(s)
          ELSE s

\* importlib.metadata.distribution(name): the distributions found; none
\* stands for PackageNotFoundError
distribution(env, name) ==
    LET normalized == Normalize(name)
    IN  {d \in env : Normalize(d.Name) = normalized}

\* RequirementsGenerator._get_package_info: <<version, pypi_name>>
get_package_info(env, name) ==
    LET found == distribution(env, name)
    IN  IF found = {}
          THEN <<None, None>>
          ELSE LET dist == CHOOSE d \in found : TRUE
               IN  <<dist.Version, dist.Name>>

(***************************************************************************)
(* FirstEdition.py: the pure parts                                         *)
(***************************************************************************)
\* RequirementsGenerator._find_local_modules: os.walk visits every
\* directory of the tree, those under exclude_dirs too
find_local_modules(p) ==
    {d.name : d \in p.packages} \cup {p.root}

\* RequirementsGenerator._scan_python_files
scan_python_files(p) ==
    IF p.has_py THEN p.imports ELSE {}

\* RequirementsGenerator._scan_django_settings: what it may return; only
\* the first settings file os.walk comes to is read, and os.walk lists the
\* entries of a directory in arbitrary order
scan_django_settings(p) ==
    IF p.has_py /\ p.settings # {} THEN p.settings ELSE {{}}

\* step 2 of run, were the local modules not filtered out
filter_imports_keeping_locals(discovered, locals) ==
    {imp \in discovered : imp # <<>> /\ imp \notin std_lib}

\* step 2 of run: the set comprehension
filter_imports(discovered, locals) ==
    {imp \in discovered : imp # <<>> /\ imp \notin std_lib /\ imp \notin locals}

\* the lookup in the static name map, were the candidate taken as it is
map_get_identity(map, imp) ==
    imp

\* IMPORT_TO_PYPI_MAP.get(imp, imp)
map_get(map, imp) ==
    IF imp \in DOMAIN map THEN map[imp] ELSE imp

\* the body of the loop of step 3, were final_requirements keyed by the name
\* that was looked up instead of the name the index reports
resolve_import_keyed_by_query(env, fr, unresolved, imp) ==
    LET pypi_name_to_check == IF imp \in DOMAIN IMPORT_TO_PYPI_MAP
                                THEN IMPORT_TO_PYPI_MAP[imp] ELSE imp
        info == get_package_info(env, pypi_name_to_check)
    IN  [ final_requirements |->
            IF Truthy(info[2]) /\ ~DictHas(fr, pypi_name_to_check)
              THEN DictSet(fr, pypi_name_to_check, info[1])
              ELSE fr,
          unresolved_imports |->
            IF Truthy(info[2]) THEN unresolved ELSE unresolved \cup {imp},
          lookup |->
            [step |-> "import", candidate |-> imp, queried |-> pypi_name_to_check,
             found |-> info[2],
             stored |-> Truthy(info[2]) /\ ~DictHas(fr, pypi_name_to_check)] ]

\* the body of the loop of step 3, were the name that was looked up reported
\* as unresolved instead of the candidate
resolve_import_reporting_query(env, fr, unresolved, imp) ==
    LET pypi_name_to_check == IF imp \in DOMAIN IMPORT_TO_PYPI_MAP
                                THEN IMPORT_TO_PYPI_MAP[imp] ELSE imp
        info == get_package_info(env, pypi_name_to_check)
    IN  [ final_requirements |->
            IF Truthy(info[2]) /\ ~DictHas(fr, info[2])
              THEN DictSet(fr, info[2], info[1])
              ELSE fr,
          unresolved_imports |->
            IF Truthy(info[2]) THEN unresolved ELSE unresolved \cup {pypi_name_to_check},
          lookup |->
            [step |-> "import", candidate |-> imp, queried |-> pypi_name_to_check,
             found |-> info[2],
             stored |-> Truthy(info[2]) /\ ~DictHas(fr, info[2])] ]

\* the body of the loop of step 3 of run, for the candidate imp: the new
\* final_requirements and unresolved_imports, and what was looked up
resolve_import(env, fr, unresolved, imp) ==
    LET pypi_name_to_check == map_get(IMPORT_TO_PYPI_MAP, imp)
        info == get_package_info(env, pypi_name_to_check)
        version == info[1]
        pypi_name == info[2]
    IN  [ final_requirements |->
            IF Truthy(pypi_name) /\ ~DictHas(fr, pypi_name)
              THEN DictSet(fr, pypi_name, version)
              ELSE fr,
          unresolved_imports |->
            IF Truthy(pypi_name) THEN unresolved ELSE unresolved \cup {imp},
          lookup |->
            [step |-> "import", candidate |-> imp, queried |-> pypi_name_to_check,
             found |-> pypi_name,
             stored |-> Truthy(pypi_name) /\ ~DictHas(fr, pypi_name)] ]

\* the body of the loop of step 4 of run, for the tool
check_tool(env, fr, tool) ==
    IF DictHas(fr, tool)
      THEN fr
      ELSE LET info == get_package_info(env, tool)
           IN  IF Truthy(info[2]) THEN DictSet(fr, info[2], info[1]) ELSE fr

\* the tools whose turn in the loop of step 4 would change final_requirements
\* when taken now; the turn of any other tool changes nothing, now or later
tools_to_check(env, fr, tools) ==
    {tool \in tools : check_tool(env, fr, tool) # fr}

\* the lines RequirementsGenerator.write_file writes behind the header
requirement_lines(fr) ==
    LET keyed == [i \in 1..Len(fr) |-> <<lower(fr[i][1]), fr[i]>>]
        items == SortPairs(<<>>, keyed)
    IN  [i \in 1..Len(items) |->
            LET package == items[i][2][1]
                version == items[i][2][2]
            IN  IF Truthy(version) THEN package \o <<"=","=">> \o version ELSE package]

HEADER ==
    << <<"#"," ","G","e","n","e","r","a","t","e","d"," ","b","y"," ","p","r","o","j","e","c","t"," ","s","c","a","n","n","e","r","."," ","R","e","v","i","e","w"," ","f","o","r"," ","a","c","c","u","r","a","c","y",".">>,
       <<"#"," ","T","h","i","s"," ","f","i","l","e"," ","l","i","s","t","s"," ","d","i","r","e","c","t"," ","d","e","p","e","n","d","e","n","c","i","e","s","."," ","S","u","b","-","d","e","p","e","n","d","e","n","c","i","e","s"," ","a","r","e"," ","h","a","n","d","l","e","d"," ","b","y"," ","p","i","p",".">>,
       <<>> >>

(***************************************************************************)
(* The state                                                               *)
(***************************************************************************)
VARIABLES
    variant,              \* "syntactic": FirstEdition.py, "inferential": GeminiWay.py
    project,              \* the tree under the working directory
    installed,            \* the distributions of the environment
    api_key,              \* whether GOOGLE_API_KEY is set
    manifest,             \* the file requirements.txt
    start_manifest,       \* requirements.txt as the running process found it
    run,                  \* 1 in the first run of main, 2 in the second
    pc,                   \* where the process is
    exit_status,          \* {} while it runs, then {its exit status}
    local_modules,        \* self.local_modules
    discovered_imports,   \* discovered_imports of run
    todo,                 \* what is left of the list the resolution loop walks
    final_requirements,   \* self.final_requirements
    unresolved_imports,   \* self.unresolved_imports
    tools_left,           \* the known tools whose turn is still to come
    gemini_response,      \* what the service answered
    service_call,         \* the request to the service: "none" sent, "returned" or "raised"
    warnings,             \* the warnings printed
    lookups               \* the queries to the metadata index that were made

vars ==
    << variant, project, installed, api_key, manifest, start_manifest, run, pc,
       exit_status, local_modules, discovered_imports, todo, final_requirements,
       unresolved_imports, tools_left, gemini_response, service_call, warnings,
       lookups >>

inputs ==
    << variant, project, installed, api_key >>

Init ==
    /\ variant \in {"syntactic", "inferential"}
    /\ project \in IF variant = "syntactic" THEN Projects ELSE TextProjects
    /\ project.has_py \/ (project.imports = {} /\ project.settings = {})
    /\ installed \in Environments
    /\ api_key \in IF variant = "syntactic" THEN {FALSE} ELSE BOOLEAN
    /\ manifest \in IF variant = "syntactic" THEN {NoFile} ELSE {NoFile, OldManifest}
    /\ start_manifest = manifest
    /\ run = 1
    /\ pc = "main"
    /\ exit_status = {}
    /\ local_modules = {}
    /\ discovered_imports = {}
    /\ todo = <<>>
    /\ final_requirements = <<>>
    /\ unresolved_imports = {}
    /\ tools_left = {}
    /\ gemini_response = <<>>
    /\ service_call = "none"
    /\ warnings = {}
    /\ lookups = {}

(***************************************************************************)
(* FirstEdition.py: main                                                   *)
(***************************************************************************)
\* RequirementsGenerator.__init__
RequirementsGenerator_init ==
    /\ variant = "syntactic" /\ pc = "main"
    /\ local_modules' = find_local_modules(project)
    /\ final_requirements' = <<>>
    /\ unresolved_imports' = {}
    /\ pc' = "scan"
    /\ UNCHANGED << inputs, manifest, start_manifest, run, exit_status,
                    discovered_imports, todo, tools_left, gemini_response,
                    service_call, warnings, lookups >>

\* where run goes when the list of step 3 is (left) rest
after_resolve(rest) ==
    IF rest = <<>> THEN "tools" ELSE "resolve"

\* run, steps 1 and 2
run_scan_and_filter ==
    /\ variant = "syntactic" /\ pc = "scan"
    /\ \E django_imports \in scan_django_settings(project) :
          discovered_imports' = scan_python_files(project) \cup django_imports
    /\ todo' = sorted_set(filter_imports(discovered_imports', local_modules))
    /\ pc' = after_resolve(todo')
    /\ tools_left' = IF todo' = <<>>
                       THEN tools_to_check(installed, final_requirements, KNOWN_CLI_AND_CONFIG_TOOLS)
                       ELSE {}
    /\ UNCHANGED << inputs, manifest, start_manifest, run, exit_status, local_modules,
                    final_requirements, unresolved_imports, gemini_response,
                    service_call, warnings, lookups >>

\* run, step 3: one turn of the loop
run_resolve ==
    /\ variant = "syntactic" /\ pc = "resolve" /\ todo # <<>>
    /\ LET r == resolve_import(installed, final_requirements, unresolved_imports, Head(todo))
       IN  /\ final_requirements' = r.final_requirements
           /\ unresolved_imports' = r.unresolved_imports
           /\ lookups' = lookups \cup {r.lookup}
    /\ todo' = Tail(todo)
    /\ pc' = after_resolve(todo')
    /\ tools_left' = IF todo' = <<>>
                       THEN tools_to_check(installed, final_requirements', KNOWN_CLI_AND_CONFIG_TOOLS)
                       ELSE {}
    /\ UNCHANGED << inputs, manifest, start_manifest, run, exit_status, local_modules,
                    discovered_imports, gemini_response, service_call, warnings >>

\* run, step 4: one turn of the loop that changes final_requirements; a set
\* is iterated in any order, and the turns that change nothing are taken
\* along with it
run_known_tools ==
    /\ variant = "syntactic" /\ pc = "tools" /\ tools_left # {}
    /\ \E tool \in tools_left :
        /\ final_requirements' = check_tool(installed, final_requirements, tool)
        /\ lookups' = lookups \cup
              {[step |-> "tool", candidate |-> tool, queried |-> tool,
                found |-> get_package_info(installed, tool)[2], stored |-> TRUE]}
        /\ tools_left' = tools_to_check(installed, final_requirements', tools_left \ {tool})
    /\ UNCHANGED << inputs, manifest, start_manifest, run, pc, exit_status, local_modules,
                    discovered_imports, todo, unresolved_imports, gemini_response,
                    service_call, warnings >>

\* RequirementsGenerator.write_file, and the end of main
write_file ==
    /\ variant = "syntactic" /\ pc = "tools" /\ tools_left = {}
    /\ manifest' = [exists |-> TRUE, lines |-> HEADER \o requirement_lines(final_requirements)]
    /\ warnings' = IF unresolved_imports # {} THEN warnings \cup {"unresolved imports"} ELSE warnings
    /\ pc' = "exit"
    /\ exit_status' = {0}
    /\ UNCHANGED << inputs, start_manifest, run, local_modules, discovered_imports, todo,
                    final_requirements, unresolved_imports, tools_left, gemini_response,
                    service_call, lookups >>

\* main is run a second time, on the same tree and in the same environment
main_again ==
    /\ variant = "syntactic" /\ pc = "exit" /\ run = 1
    /\ run' = 2
    /\ start_manifest' = manifest
    /\ pc' = "main"
    /\ exit_status' = {}
    /\ local_modules' = {}
    /\ discovered_imports' = {}
    /\ todo' = <<>>
    /\ final_requirements' = <<>>
    /\ unresolved_imports' = {}
    /\ tools_left' = {}
    /\ warnings' = {}
    /\ lookups' = {}
    /\ UNCHANGED << inputs, manifest, gemini_response, service_call >>

(***************************************************************************)
(* GeminiWay.py                                                            *)
(***************************************************************************)
\* the list comprehension of _parse_and_resolve_versions
potential_packages(gemini_output) ==
    LET pieces == split(strip(gemini_output), ",")
    IN  SelectSeq([i \in 1..Len(pieces) |-> strip(pieces[i])], LAMBDA pkg : pkg # <<>>)

\* the guard of the early return, were the empty answer not looked for
empty_response_unchecked(gemini_output) ==
    FALSE

\* the guard of the early return of _parse_and_resolve_versions
empty_response(gemini_output) ==
    gemini_output = <<>>

\* the body of the loop of _parse_and_resolve_versions, for pkg_name
resolve_package(env, fr, pkg_name) ==
    LET corrected_name == map_get(Gemini_IMPORT_TO_PYPI_MAP, pkg_name)
        found == distribution(env, corrected_name)
        dist == CHOOSE d \in found : TRUE
    IN  [ final_requirements |->
            IF found # {} /\ ~DictHas(fr, dist.Name)
              THEN DictSet(fr, dist.Name, dist.Version)
              ELSE fr,
          warnings |-> IF found = {} THEN {"not installed"} ELSE {},
          lookup |->
            [step |-> "import", candidate |-> pkg_name, queried |-> corrected_name,
             found |-> IF found = {} THEN None ELSE dist.Name,
             stored |-> found # {} /\ ~DictHas(fr, dist.Name)] ]

\* the lines GeminiRequirementsGenerator.write_file writes behind the header
gemini_requirement_lines(fr) ==
    LET keyed == [i \in 1..Len(fr) |-> <<lower(fr[i][1]), fr[i]>>]
        items == SortPairs(<<>>, keyed)
    IN  [i \in 1..Len(items) |->
            items[i][2][1] \o <<"=","=">> \o Format(items[i][2][2])]

GEMINI_HEADER ==
    << <<"#"," ","G","e","n","e","r","a","t","e","d"," ","b","y"," ","G","e","m","i","n","i"," ","A","I","."," ","R","e","v","i","e","w"," ","f","o","r"," ","a","c","c","u","r","a","c","y",".">>,
       <<"#"," ","T","h","i","s"," ","f","i","l","e"," ","l","i","s","t","s"," ","t","h","e"," ","d","i","r","e","c","t"," ","d","e","p","e","n","d","e","n","c","i","e","s"," ","i","d","e","n","t","i","f","i","e","d"," ","f","r","o","m"," ","t","h","e"," ","s","o","u","r","c","e"," ","c","o","d","e",".">>,
       <<>> >>

\* the except clause, were the error printed and the run carried on
service_error_swallowed ==
    [pc |-> "parse", exit_status |-> {}]

\* what the except clause of _get_packages_from_gemini leaves behind:
\* sys.exit(1)
service_error ==
    [pc |-> "exit", exit_status |-> {1}]

\* GeminiRequirementsGenerator.__init__, called by main
GeminiRequirementsGenerator_init ==
    /\ variant = "inferential" /\ pc = "main"
    /\ IF ~api_key
         THEN /\ pc' = "exit"
              /\ exit_status' = {1}
              /\ warnings' = warnings \cup {"GOOGLE_API_KEY environment variable not set."}
              /\ UNCHANGED final_requirements
         ELSE /\ pc' = "ingest"
              /\ final_requirements' = <<>>
              /\ UNCHANGED << exit_status, warnings >>
    /\ UNCHANGED << inputs, manifest, start_manifest, run, local_modules,
                    discovered_imports, todo, unresolved_imports, tools_left,
                    gemini_response, service_call, lookups >>

\* GeminiRequirementsGenerator._ingest_project_code
ingest_project_code ==
    /\ variant = "inferential" /\ pc = "ingest"
    /\ IF ~project.has_py
         THEN /\ pc' = "exit"
              /\ exit_status' = {1}
              /\ warnings' = warnings \cup {"No Python source files found to analyze."}
         ELSE /\ pc' = "ask"
              /\ UNCHANGED << exit_status, warnings >>
    /\ UNCHANGED << inputs, manifest, start_manifest, run, local_modules,
                    discovered_imports, todo, final_requirements, unresolved_imports,
                    tools_left, gemini_response, service_call, lookups >>

\* GeminiRequirementsGenerator._get_packages_from_gemini: the service
\* answers some text, or the call raises
get_packages_from_gemini ==
    /\ variant = "inferential" /\ pc = "ask"
    /\ \/ \E tokens \in SeqsUpTo(Tokens, MaxTokens) :
            /\ gemini_response' = join(<<",">>, tokens)
            /\ service_call' = "returned"
            /\ pc' = "parse"
            /\ UNCHANGED << exit_status, warnings >>
       \/ /\ service_call' = "raised"
          /\ pc' = service_error.pc
          /\ exit_status' = service_error.exit_status
          /\ warnings' = warnings \cup {"An error occurred with the Gemini API"}
          /\ UNCHANGED gemini_response
    /\ UNCHANGED << inputs, manifest, start_manifest, run, local_modules,
                    discovered_imports, todo, final_requirements, unresolved_imports,
                    tools_left, lookups >>

\* GeminiRequirementsGenerator._parse_and_resolve_versions, up to the loop
parse_and_resolve_versions ==
    /\ variant = "inferential" /\ pc = "parse"
    /\ IF empty_response(gemini_response)
         THEN /\ warnings' = warnings \cup {"Gemini returned an empty response."}
              /\ todo' = <<>>
              /\ pc' = "write"
         ELSE /\ todo' = sorted(potential_packages(gemini_response))
              /\ pc' = IF todo' = <<>> THEN "write" ELSE "resolve"
              /\ UNCHANGED warnings
    /\ UNCHANGED << inputs, manifest, start_manifest, run, exit_status, local_modules,
                    discovered_imports, final_requirements, unresolved_imports,
                    tools_left, gemini_response, service_call, lookups >>

\* one turn of the loop of _parse_and_resolve_versions
resolve_versions ==
    /\ variant = "inferential" /\ pc = "resolve" /\ todo # <<>>
    /\ LET r == resolve_package(installed, final_requirements, Head(todo))
       IN  /\ final_requirements' = r.final_requirements
           /\ warnings' = warnings \cup r.warnings
           /\ lookups' = lookups \cup {r.lookup}
    /\ todo' = Tail(todo)
    /\ pc' = IF todo' = <<>> THEN "write" ELSE "resolve"
    /\ UNCHANGED << inputs, manifest, start_manifest, run, exit_status, local_modules,
                    discovered_imports, unresolved_imports, tools_left,
                    gemini_response, service_call >>

\* GeminiRequirementsGenerator.write_file, and the end of main
gemini_write_file ==
    /\ variant = "inferential" /\ pc = "write"
    /\ manifest' = [exists |-> TRUE,
                    lines |-> GEMINI_HEADER \o gemini_requirement_lines(final_requirements)]
    /\ pc' = "exit"
    /\ exit_status' = {0}
    /\ UNCHANGED << inputs, start_manifest, run, local_modules, discovered_imports, todo,
                    final_requirements, unresolved_imports, tools_left, gemini_response,
                    service_call, warnings, lookups >>

Next ==
    \/ RequirementsGenerator_init
    \/ run_scan_and_filter
    \/ run_resolve
    \/ run_known_tools
    \/ write_file
    \/ main_again
    \/ GeminiRequirementsGenerator_init
    \/ ingest_project_code
    \/ get_packages_from_gemini
    \/ parse_and_resolve_versions
    \/ resolve_versions
    \/ gemini_write_file

Spec ==
    Init /\ [][Next]_vars


(***************************************************************************)
(* What the properties speak about                                         *)
(***************************************************************************)
\* the static name map of the running variant
NameMap ==
    IF variant = "syntactic" THEN IMPORT_TO_PYPI_MAP ELSE Gemini_IMPORT_TO_PYPI_MAP

\* the name the static name map gives the candidate c
Mapped(c) ==
    IF \E k \in DOMAIN NameMap : k = c THEN NameMap[c] ELSE c

\* the installed distributions the index answers the name with
InstalledAs(name) ==
    LET normalized == Normalize(name)
    IN  {d \in installed : Normalize(d.Name) = normalized}

\* the discovered names that survive the filter of step 2
FilteredCandidates ==
    {c \in discovered_imports :
        /\ c # <<>>
        /\ c \notin std_lib
        /\ c \notin {d.name : d \in project.packages}
        /\ c # project.root}

\* the requirement lines of the manifest: what follows the two header lines
\* and the blank line
Body ==
    SubSeq(manifest.lines, 4, Len(manifest.lines))

\* the name a requirement line begins with
NameOfLine(line) ==
    split(line, "=")[1]

\* the requirement lines of the manifest that name the distribution d
LinesFor(d) ==
    {i \in 1..Len(Body) : Normalize(NameOfLine(Body[i])) = Normalize(d.Name)}

\* the line the distribution d is to be written as
LineOf(d) ==
    IF d.Version = None THEN d.Name ELSE d.Name \o <<"=","=">> \o d.Version

\* the process of the syntactic variant has written the manifest and ended
SyntacticDone ==
    variant = "syntactic" /\ pc = "exit"

(***************************************************************************)
(* C1                                                                      *)
(***************************************************************************)
\* C1: in the syntactic variant no entry of final_requirements is ever made
\* by looking up a name of the local-module set in the metadata index, be
\* it in step 3 or in the known-tools step of run.
LocalModulePrecedence ==
    variant = "syntactic" =>
        \A l \in lookups : l.stored => l.candidate \notin local_modules

(***************************************************************************)
(* C2                                                                      *)
(***************************************************************************)
\* the distributions that resolving the filtered candidates gives
ResolvedFromCandidates ==
    UNION {InstalledAs(Mapped(c)) : c \in FilteredCandidates}

\* the distributions that the known-tools step gives
ResolvedFromTools ==
    UNION {InstalledAs(tool) : tool \in KNOWN_CLI_AND_CONFIG_TOOLS}

\* C2 as stated: after run and write_file of the syntactic variant the
\* requirement lines of the manifest are exactly the distributions that
\* resolving the filtered candidates gives; with the filtered candidates
\* {requests} and requests 2.31.0 installed, the one line requests==2.31.0.
ManifestIsResolvedCandidates ==
    SyntacticDone =>
        /\ {Body[i] : i \in 1..Len(Body)} = {LineOf(d) : d \in ResolvedFromCandidates}
        /\ Len(Body) = Cardinality(ResolvedFromCandidates)
        /\ (FilteredCandidates = {<<"r","e","q","u","e","s","t","s">>} /\ InstalledAs(<<"r","e","q","u","e","s","t","s">>) # {}
              => Body = <<<<"r","e","q","u","e","s","t","s","=","=","2",".","3","1",".","0">>>>)

\* C2 as amended: the requirement lines are exactly the distributions that
\* resolving the filtered candidates gives together with the installed
\* distributions of the known tools; with the filtered candidates {requests},
\* requests 2.31.0 installed and no known tool installed, the one line
\* requests==2.31.0.
ManifestIsCandidatesAndTools ==
    SyntacticDone =>
        LET resolved == ResolvedFromCandidates \cup ResolvedFromTools
        IN  /\ {Body[i] : i \in 1..Len(Body)} = {LineOf(d) : d \in resolved}
            /\ Len(Body) = Cardinality(resolved)
            /\ (FilteredCandidates = {<<"r","e","q","u","e","s","t","s">>} /\ InstalledAs(<<"r","e","q","u","e","s","t","s">>) # {}
                    /\ resolved = ResolvedFromCandidates
                  => Body = <<<<"r","e","q","u","e","s","t","s","=","=","2",".","3","1",".","0">>>>)

\* a run on the candidates {requests} with requests and a known tool installed
ManifestWithCandidateAndTool ==
    /\ SyntacticDone
    /\ FilteredCandidates = {<<"r","e","q","u","e","s","t","s">>}
    /\ InstalledAs(<<"r","e","q","u","e","s","t","s">>) # {}
    /\ ResolvedFromTools # {}
    /\ Len(Body) = 2

(***************************************************************************)
(* C3                                                                      *)
(***************************************************************************)
\* the distinct candidates whose lookup found the distribution d
CandidatesFinding(d) ==
    {l.candidate : l \in {k \in lookups : k.step = "import" /\ k.found = d.Name}}

\* C3: final_requirements never holds two entries for one distribution of
\* the index, and when two distinct candidates resolved to one installed
\* distribution the written manifest holds exactly one line for it.
DedupInvariant ==
    /\ \A i, j \in 1..Len(final_requirements) :
          Normalize(final_requirements[i][1]) = Normalize(final_requirements[j][1]) => i = j
    /\ (pc = "exit" /\ exit_status = {0}) =>
          \A d \in installed :
              Cardinality(CandidatesFinding(d)) >= 2 => Cardinality(LinesFor(d)) = 1

\* two distinct candidates resolved to one distribution, and the manifest
\* is written
TwoCandidatesOneDistribution ==
    /\ pc = "exit" /\ exit_status = {0}
    /\ \E d \in installed :
          Cardinality(CandidatesFinding(d)) >= 2 /\ Cardinality(LinesFor(d)) = 1

(***************************************************************************)
(* C4                                                                      *)
(***************************************************************************)
\* C4: once step 3 of run is over, every filtered candidate either has its
\* distribution as a key of final_requirements or is in unresolved_imports,
\* never both; one with no installed distribution under its mapped name is
\* in unresolved_imports and has no line in the manifest; the run never
\* ends with a non-zero status.
UnresolvedImports ==
    variant = "syntactic" =>
        /\ exit_status \subseteq {0}
        /\ pc \in {"tools", "exit"} =>
            \A c \in FilteredCandidates :
                /\ (\E d \in InstalledAs(Mapped(c)) : d.Name \in DictKeys(final_requirements))
                      # (c \in unresolved_imports)
                /\ InstalledAs(Mapped(c)) = {} => c \in unresolved_imports
        /\ pc = "exit" =>
            \A c \in FilteredCandidates :
                InstalledAs(Mapped(c)) = {} =>
                    \A i \in 1..Len(Body) :
                        Normalize(NameOfLine(Body[i])) \notin {Normalize(c), Normalize(Mapped(c))}

\* a run ended with one candidate resolved and one reported unresolved
ResolvedAndUnresolved ==
    /\ SyntacticDone
    /\ exit_status = {0}
    /\ \E c \in FilteredCandidates : c \in unresolved_imports /\ c # Mapped(c)
    /\ \E c \in FilteredCandidates : InstalledAs(Mapped(c)) # {}
    /\ Len(Body) >= 1

(***************************************************************************)
(* C5                                                                      *)
(***************************************************************************)
\* the line the manifest writer is to write for the item <<name, version>>
RequirementLine(item) ==
    IF item[2] = None THEN item[1] ELSE item[1] \o <<"=","=">> \o item[2]

\* C5: in both variants the written manifest is two header lines, a blank
\* line, then one line per entry of final_requirements in case-insensitive
\* order of the names, name==version when the version is known and the
\* bare name when it is absent.
ManifestWriter ==
    (pc = "exit" /\ exit_status = {0}) =>
        /\ manifest.exists
        /\ Len(manifest.lines) = 3 + Len(final_requirements)
        /\ manifest.lines[1][1] = "#" /\ manifest.lines[2][1] = "#"
        /\ manifest.lines[3] = <<>>
        /\ \E order \in [1..Len(final_requirements) -> 1..Len(final_requirements)] :
              /\ \A i, j \in 1..Len(final_requirements) : order[i] = order[j] => i = j
              /\ \A i \in 1..Len(final_requirements) :
                    Body[i] = RequirementLine(final_requirements[order[i]])
              /\ \A i, j \in 1..Len(final_requirements) :
                    i < j => ~StrLess(lower(final_requirements[order[j]][1]),
                                      lower(final_requirements[order[i]][1]))

(***************************************************************************)
(* C6                                                                      *)
(***************************************************************************)
\* C6: in both variants a run on a tree without any .py file ends with a
\* non-zero exit status and leaves the manifest as it found it.
NoSourceFilesIsFatal ==
    (pc = "exit" /\ ~project.has_py) =>
        exit_status = {1} /\ manifest = start_manifest

(***************************************************************************)
(* C7                                                                      *)
(***************************************************************************)
\* C7: a second complete run of the syntactic variant on the same tree and
\* in the same environment, the manifest of the first run lying in the
\* tree, writes the manifest the first run wrote, in whatever order the
\* files are walked and the known tools are iterated in either run.
Idempotence ==
    (SyntacticDone /\ run = 2) => manifest = start_manifest

(***************************************************************************)
(* C8                                                                      *)
(***************************************************************************)
\* C8: in the inferential variant the service is called only with the API
\* key present, the manifest is written only after the service has
\* returned without error, and a run that found no key or whose service
\* call raised ends with exit status 1, the manifest as it was found, and
\* nothing running after it.
FatalFailuresOrder ==
    /\ [](variant = "inferential" =>
            /\ service_call # "none" => api_key
            /\ manifest # start_manifest => service_call = "returned"
            /\ (~api_key \/ service_call = "raised") =>
                  /\ manifest = start_manifest
                  /\ final_requirements = <<>> /\ lookups = {} /\ todo = <<>>
                  /\ pc \in {"main", "ingest", "ask", "exit"}
                  /\ pc = "exit" => exit_status = {1}
            /\ (pc = "main" /\ ~api_key) => ENABLED GeminiRequirementsGenerator_init)
    /\ [][(variant = "inferential" /\ exit_status = {1}) => UNCHANGED vars]_vars
    /\ [][(variant = "inferential" /\ pc = "main" /\ ~api_key) => exit_status' = {1}]_vars
    /\ [][(variant = "inferential" /\ service_call' = "raised") => exit_status' = {1}]_vars

\* the service call raised with a manifest in the tree
ServiceRaised ==
    /\ variant = "inferential"
    /\ service_call = "raised"
    /\ exit_status = {1}
    /\ manifest = OldManifest

(***************************************************************************)
(* C9                                                                      *)
(***************************************************************************)
\* C9: in the inferential variant, when the service has returned the empty
\* string, final_requirements stays empty, and the run ends with the
\* warning printed, the manifest written as its header and no requirement
\* line, and exit status 0.
EmptyResponse ==
    (variant = "inferential" /\ service_call = "returned" /\ gemini_response = <<>>) =>
        /\ final_requirements = <<>>
        /\ pc \in {"parse", "write", "exit"}
        /\ pc = "exit" =>
              /\ "Gemini returned an empty response." \in warnings
              /\ manifest.exists
              /\ Len(manifest.lines) = 3 /\ Body = <<>>
              /\ manifest.lines[1][1] = "#" /\ manifest.lines[2][1] = "#"
              /\ manifest.lines[3] = <<>>
              /\ exit_status = {0}

\* a run on the empty answer has ended, with distributions installed
EmptyResponseDone ==
    /\ variant = "inferential" /\ service_call = "returned" /\ gemini_response = <<>>
    /\ pc = "exit"
    /\ installed # {}
    /\ start_manifest = OldManifest

(***************************************************************************)
(* C10                                                                     *)
(***************************************************************************)
\* C10: in both variants the name the metadata index is asked for a
\* candidate is the value the static name map has for it, and not the
\* candidate, when the candidate is a key of the map, and the candidate
\* itself otherwise; candidate bs4 with beautifulsoup4 4.12.0 installed
\* gives the manifest line beautifulsoup4==4.12.0.
StaticNameMap ==
    /\ \A l \in lookups :
          l.step = "import" =>
              IF \E k \in DOMAIN NameMap : k = l.candidate
                THEN l.queried = NameMap[l.candidate] /\ l.queried # l.candidate
                ELSE l.queried = l.candidate
    /\ (pc = "exit" /\ exit_status = {0}
          /\ (\E l \in lookups : l.step = "import" /\ l.candidate = <<"b","s","4">>)
          /\ InstalledAs(<<"b","e","a","u","t","i","f","u","l","s","o","u","p","4">>) # {})
        => \E i \in 1..Len(Body) : Body[i] = <<"b","e","a","u","t","i","f","u","l","s","o","u","p","4","=","=","4",".","1","2",".","0">>

\* candidate bs4 was resolved and the manifest is written
Bs4Resolved ==
    /\ pc = "exit" /\ exit_status = {0}
    /\ \E l \in lookups : l.step = "import" /\ l.candidate = <<"b","s","4">> /\ l.stored
    /\ \E i \in 1..Len(Body) : Body[i] = <<"b","e","a","u","t","i","f","u","l","s","o","u","p","4","=","=","4",".","1","2",".","0">>

(***************************************************************************)
(* C11                                                                     *)
(***************************************************************************)
\* C11: in the syntactic variant the local-module set holds the names of the
\* package directories that lie outside the excluded directory names, and
\* the name of the root directory, and nothing else: a package directory
\* under an excluded directory (a virtual environment inside the root) adds
\* no name. So a discovered name of a third-party package that is installed,
\* and whose only package directory in the tree lies under an excluded
\* directory, survives the filter of step 2 and has its line in the manifest.
LocalDiscoverySkipsExcluded ==
    (variant = "syntactic" /\ pc # "main") =>
        LET walked == {d.name : d \in {e \in project.packages : ~e.excluded}}
        IN  /\ local_modules = walked \cup {project.root}
            /\ SyntacticDone =>
                  \A c \in discovered_imports :
                      ( /\ c # <<>>
                        /\ c \notin std_lib
                        /\ c \notin walked
                        /\ c # project.root
                        /\ InstalledAs(Mapped(c)) # {} )
                      => \E d \in InstalledAs(Mapped(c)) : LinesFor(d) # {}

====
